---- MODULE Spec2Model ----
(***************************************************************************)
(* Conversational AI interaction core of Edumatee: the two chat panels     *)
(* (Explainer with its ChatInput, InterviewTrainer), the model gateway     *)
(* (geminiService) and the useSpeech hook, as state machines.              *)
(*                                                                         *)
(* Text is a sequence of tokens (a token stands for a run of characters),  *)
(* so that concatenation, trimming and joining are computed, not assumed.  *)
(*                                                                         *)
(* React: a handler sees the state of the last committed render; a state   *)
(* change commits a render at once and leaves the passive effects of that  *)
(* render pending (effectPending) until RunEffects runs them.              *)
(***************************************************************************)
EXTENDS Integers, Sequences, FiniteSets, TLC

\* ------------------------------------------------------------------ bounds
MaxSends == 2
MaxFrags == 2
MaxTime == 1
MaxSegments == 1
MaxEngines == 1
MaxPendingEvents == 2
MaxUtterances == 2
MaxRawLen == 3
MaxCalls == 2
MaxRequests == 2

\* ------------------------------------------------------------- text helpers
SeqsUpTo(S, n) == UNION {[1..k -> S] : k \in 0..n}

RECURSIVE Flatten(_)
Flatten(ss) == IF ss = <<>> THEN <<>> ELSE Head(ss) \o Flatten(Tail(ss))

IsSpace(c) == c = " "

RECURSIVE TrimStart(_)
TrimStart(s) == IF s # <<>> /\ IsSpace(Head(s)) THEN TrimStart(Tail(s)) ELSE s

RECURSIVE TrimEnd(_)
TrimEnd(s) ==
    IF s # <<>> /\ IsSpace(s[Len(s)]) THEN TrimEnd(SubSeq(s, 1, Len(s) - 1)) ELSE s

Trim(s) == TrimEnd(TrimStart(s))

RECURSIVE Join(_, _)
\* array.join(separator) of texts
Join(ts, sep) ==
    IF ts = <<>> THEN <<>>
    ELSE IF Len(ts) = 1 THEN ts[1]
    ELSE ts[1] \o sep \o Join(Tail(ts), sep)

\* ------------------------------------------------------------ environment
Panels == {"Explainer", "InterviewTrainer"}

Fragments == {<<"a">>, <<"b">>}

TypedTexts == {<<>>, <<" ">>, <<"q">>}

Hypotheses == {<<"hello">>, <<"hello", " world">>}

Greeting == <<"Hello! I'm EduLearn">>

ApiKeyMissing == <<"API key is missing.">>

TransportError == <<"fetch failed">>

ErrorMarker == <<"**Error:** ">>

NoFile == "none"

Files == {"f.pdf"}

NoId == [pre |-> "", t |-> 0, suf |-> ""]

UserId(t) == [pre |-> "msg", t |-> t, suf |-> ""]

ModelId(t) == [pre |-> "msg", t |-> t, suf |-> "-model"]

InitId(t) == [pre |-> "msg-init", t |-> t, suf |-> ""]

\* the notes argument of generateExplanationStream: undefined, or the list of
\* class notes of the local storage
Note(subject, title, content) == [subject |-> subject, title |-> title, content |-> content]

NotesArgs ==
    {[given |-> FALSE, list |-> <<>>],
     [given |-> TRUE, list |-> <<>>],
     [given |-> TRUE, list |-> <<Note(<<"s1">>, <<"t1">>, <<"c1">>),
                                  Note(<<"s2">>, <<"t2">>, <<"c2">>)>>]}

NotesInstruction ==
    <<"Based on the following notes, please answer my question. If the answer is not in the notes, you can use your general knowledge but please mention that the information wasn't in the provided material.\n\n">>

\* What the remote model can answer to a streaming request: a stream that
\* yields frags and then ends or throws, or a failure to open the stream.
RemoteStreams ==
    {[kind |-> "stream", frags |-> f, fail |-> b, msg |-> <<>>] :
        f \in SeqsUpTo(Fragments, MaxFrags), b \in BOOLEAN}
    \cup {[kind |-> "error", frags |-> <<>>, fail |-> FALSE, msg |-> TransportError]}

FileReadOutcomes == {"ok", "error"}

\* speakingQuestionIndex / speakingIdeaIndex: null
NoIndex == 0

\* the skill goals of the local storage, and isLoadingFeedback: null
Goals == {"goal-1", "goal-2"}

NoGoal == "none"

VARIABLES
    panel, apiKey, now,
    messages, isLoading, input, selectedFile,
    reqs, netCalls,
    isListening, refEngine, engines, lastResult,
    synth, synthEvents, uttCount, isSpeaking, speakingMessageId, effSpeaking,
    effectPending, lastOp,
    gwOp, gwRaw, gwOut, gwNet,
    result, error, speakingIndex, genReq, genSends, isOpen, mounted,
    isLoadingFeedback, fbReqs, notification

chatVars == <<messages, isLoading, input, selectedFile, reqs, netCalls>>

recVars == <<isListening, refEngine, engines, lastResult>>

synthVars == <<synth, synthEvents, uttCount, isSpeaking, speakingMessageId, effSpeaking>>

gwVars == <<gwOp, gwRaw, gwOut, gwNet>>

genVars == <<result, error, speakingIndex, genReq, genSends, isOpen, mounted>>

skillVars == <<isLoadingFeedback, fbReqs, notification>>

vars == <<panel, apiKey, now, chatVars, recVars, synthVars, effectPending, lastOp, gwVars,
          genVars, skillVars>>


\* ---------------------------------------------------------- model gateway
\* geminiService: the credential check, then the request to the remote model.
\* net is the number of network requests the call issued.
generateExplanationStream_Retry(key, remote) ==
    IF ~key
    THEN [kind |-> "error", frags |-> <<>>, fail |-> FALSE, msg |-> ApiKeyMissing, net |-> 0]
    ELSE [kind |-> remote.kind, frags |-> remote.frags, fail |-> remote.fail,
          msg |-> remote.msg, net |-> IF remote.kind = "error" THEN 2 ELSE 1]

generateExplanationStream(key, remote) ==
    IF ~key
    THEN [kind |-> "error", frags |-> <<>>, fail |-> FALSE, msg |-> ApiKeyMissing, net |-> 0]
    ELSE [kind |-> remote.kind, frags |-> remote.frags, fail |-> remote.fail,
          msg |-> remote.msg, net |-> 1]

startInterviewChat(key, remote) ==
    IF ~key
    THEN [kind |-> "error", frags |-> <<>>, fail |-> FALSE, msg |-> ApiKeyMissing, net |-> 0]
    ELSE [kind |-> remote.kind, frags |-> remote.frags, fail |-> remote.fail,
          msg |-> remote.msg, net |-> 1]

NoOutcome == [kind |-> "none", frags |-> <<>>, fail |-> FALSE, msg |-> <<>>, net |-> 0]

\* ---- what a chat call hands to the remote model
\* buildHistory(messages): role and content of every turn, in order
buildHistory_LastOnly(msgs) ==
    [i \in DOMAIN msgs |-> [role |-> msgs[Len(msgs)].role, text |-> msgs[Len(msgs)].content]]

buildHistory(msgs) ==
    [i \in DOMAIN msgs |-> [role |-> msgs[i].role, text |-> msgs[i].content]]

\* notes.map(n => `Subject: ${n.subject}\nTitle: ${n.title}\nContent:\n${n.content}`)
\*      .join('\n\n---\n\n')
NotesContext(list) ==
    Join([n \in DOMAIN list |->
            <<"Subject: ">> \o list[n].subject \o <<"\nTitle: ">> \o list[n].title
                \o <<"\nContent:\n">> \o list[n].content],
         <<"\n\n---\n\n">>)

\* let finalMessage = newMessage; if (notes && notes.length > 0) finalMessage = ...
FinalMessage_QuestionFirst(newMessage, notes) ==
    IF notes.given /\ notes.list # <<>>
    THEN NotesInstruction \o <<"[My Question]\n">> \o newMessage \o <<"\n\n[My Notes]\n">>
            \o NotesContext(notes.list)
    ELSE newMessage

FinalMessage(newMessage, notes) ==
    IF notes.given /\ notes.list # <<>>
    THEN NotesInstruction \o <<"[My Notes]\n">> \o NotesContext(notes.list)
            \o <<"\n\n[My Question]\n">> \o newMessage
    ELSE newMessage

\* one element of the parts of a message: a text or the data of a file
TextPart(text) == [text |-> text, inlineData |-> NoFile]

FilePart(file) == [text |-> <<>>, inlineData |-> file]

\* nothing was handed to the remote model (the credential check threw first)
NoInput == [history |-> <<>>, parts |-> <<>>]

NoNotes == [given |-> FALSE, list |-> <<>>]

\* generateExplanationStream: ai.chats.create({history: buildHistory(history)})
\* and chat.sendMessageStream({message: parts})
ExplanationInput(key, history, newMessage, file, notes) ==
    IF ~key THEN NoInput
    ELSE [history |-> buildHistory(history),
          parts |-> <<TextPart(FinalMessage(newMessage, notes))>>
                    \o (IF file = NoFile THEN <<>> ELSE <<FilePart(file)>>)]

\* startInterviewChat: the same with parts = [{ text: newMessage }]
InterviewInput(key, history, newMessage) ==
    IF ~key THEN NoInput
    ELSE [history |-> buildHistory(history), parts |-> <<TextPart(newMessage)>>]

\* ---- structured output: the response text as a sequence of JSON tokens
\* "O" is an object literal that has every required property of the declared
\* schema, "E" one that has them with empty strings as their values, "P" an
\* object literal that lacks them, "x" text that is no JSON.
JsonTokens == {" ", "[", "]", ",", "O", "E", "P", "x"}

RawTexts == SeqsUpTo(JsonTokens, MaxRawLen)

RemoteTexts ==
    {[kind |-> "text", raw |-> r] : r \in RawTexts} \cup {[kind |-> "error", raw |-> <<>>]}

RECURSIVE SkipSpace(_, _)
SkipSpace(t, i) == IF i <= Len(t) /\ IsSpace(t[i]) THEN SkipSpace(t, i + 1) ELSE i

JsonFail ==
    [ok |-> FALSE, val |-> [t |-> "none", full |-> FALSE, blank |-> FALSE, items |-> <<>>],
     next |-> 0]

JsonObject(tok) ==
    [t |-> "obj", full |-> (tok \in {"O", "E"}), blank |-> (tok = "E"), items |-> <<>>]

JsonArray(items) == [t |-> "arr", full |-> FALSE, blank |-> FALSE, items |-> items]

RECURSIVE ParseValue(_, _), ParseElements(_, _, _)
\* one JSON value starting at token i (after white space)
ParseValue(t, i) ==
    LET j == SkipSpace(t, i)
    IN IF j > Len(t) THEN JsonFail
       ELSE IF t[j] \in {"O", "E", "P"} THEN [ok |-> TRUE, val |-> JsonObject(t[j]), next |-> j + 1]
       ELSE IF t[j] = "["
            THEN LET k == SkipSpace(t, j + 1)
                 IN IF k <= Len(t) /\ t[k] = "]"
                    THEN [ok |-> TRUE, val |-> JsonArray(<<>>), next |-> k + 1]
                    ELSE ParseElements(t, k, <<>>)
       ELSE JsonFail

\* the elements of an array after "[" or ",", up to the closing "]"
ParseElements(t, i, acc) ==
    LET e == ParseValue(t, i)
    IN IF ~e.ok THEN JsonFail
       ELSE LET k == SkipSpace(t, e.next)
            IN IF k > Len(t) THEN JsonFail
               ELSE IF t[k] = "]"
                    THEN [ok |-> TRUE, val |-> JsonArray(Append(acc, e.val)), next |-> k + 1]
               ELSE IF t[k] = "," THEN ParseElements(t, k + 1, Append(acc, e.val))
               ELSE JsonFail

\* JSON.parse(text): one value and nothing but white space after it
JSONParse(text) ==
    LET v == ParseValue(text, 1)
    IN IF v.ok /\ SkipSpace(text, v.next) > Len(text) THEN v ELSE JsonFail

StructuredOps == {"generateQuiz", "getSkillFeedback", "getProjectIdeas", "debugCode",
                  "generateWebsiteCode"}

\* quizSchema and projectIdeaSchema declare an array of objects, the other
\* three schemas an object
SchemaIsArray(op) == op \in {"generateQuiz", "getProjectIdeas"}

Conforms(op, val) ==
    IF SchemaIsArray(op)
    THEN val.t = "arr" /\ \A n \in DOMAIN val.items :
                              val.items[n].t = "obj" /\ val.items[n].full
    ELSE val.t = "obj" /\ val.full

FormatErrorMsg(op) ==
    CASE op = "generateQuiz" -> <<"The AI returned an invalid quiz format. Please try again.">>
      [] op = "getSkillFeedback" -> <<"The AI returned an invalid feedback format. Please try again.">>
      [] op = "getProjectIdeas" -> <<"The AI returned an invalid project idea format. Please try again.">>
      [] op = "debugCode" -> <<"The AI returned an invalid format. Please try again.">>
      [] OTHER -> <<"The AI returned an invalid code format. Please try again.">>

NoValue == [t |-> "none", full |-> FALSE, blank |-> FALSE, items |-> <<>>]

GwError(msg, net) == [kind |-> "error", msg |-> msg, val |-> NoValue, net |-> net]

GwValue(val) == [kind |-> "value", msg |-> <<>>, val |-> val, net |-> 1]

GwText(raw) == [kind |-> "text", msg |-> raw, val |-> NoValue, net |-> 1]

\* try { JSON.parse(response.text.trim()) as T } catch { throw format error }
ParseStructured_Unchecked(op, raw) == GwValue(JSONParse(Trim(raw)).val)

ParseStructured(op, raw) ==
    LET parsed == JSONParse(Trim(raw))
    IN IF parsed.ok THEN GwValue(parsed.val) ELSE GwError(FormatErrorMsg(op), 1)

StructuredCall(op, key, remote) ==
    IF ~key THEN GwError(ApiKeyMissing, 0)
    ELSE IF remote.kind = "error" THEN GwError(TransportError, 1)
    ELSE ParseStructured(op, remote.raw)

generateQuiz(key, remote) == StructuredCall("generateQuiz", key, remote)

getSkillFeedback(key, remote) == StructuredCall("getSkillFeedback", key, remote)

getProjectIdeas(key, remote) == StructuredCall("getProjectIdeas", key, remote)

debugCode(key, remote) == StructuredCall("debugCode", key, remote)

generateWebsiteCode(key, remote) == StructuredCall("generateWebsiteCode", key, remote)

summarizeText(key, remote) ==
    IF ~key THEN GwError(ApiKeyMissing, 0)
    ELSE IF remote.kind = "error" THEN GwError(TransportError, 1)
    ELSE GwText(remote.raw)

generateImages_NoKeyCheck(key, remote) ==
    IF remote.kind = "error" THEN GwError(TransportError, 1) ELSE GwText(remote.raw)

generateImages(key, remote) ==
    IF ~key THEN GwError(ApiKeyMissing, 0)
    ELSE IF remote.kind = "error" THEN GwError(TransportError, 1)
    ELSE GwText(remote.raw)

generateCodeSnippetStream(key, remote) ==
    IF ~key
    THEN [kind |-> "error", frags |-> <<>>, fail |-> FALSE, msg |-> ApiKeyMissing, net |-> 0]
    ELSE [kind |-> remote.kind, frags |-> remote.frags, fail |-> remote.fail,
          msg |-> remote.msg, net |-> 1]

\* --------------------------------------------------------- useSpeech hook
NewRecognition(listening) == [phase |-> "idle", clos |-> listening, res |-> <<>>]

\* recognitionRef.current.stop(): a recognition that was never started
\* ignores it; a running one stops capturing and ends later.
RecognitionStop(rec) ==
    IF rec.phase = "running" THEN [rec EXCEPT !.phase = "stopping"] ELSE rec

RunningCount == Len(engines) + (IF refEngine.phase = "idle" THEN 0 ELSE 1)

\* window.speechSynthesis.cancel(): every queued utterance leaves the queue
\* and the engine owes one end/error event for each of them.
SynthCancelEvents(q, pending) == pending + Len(q)

\* speak(): cancel, then queue the new utterance.
SpeakQueue_NoCancel(q, u) == Append(q, u)

SpeakQueue(q, u) == Append(<<>>, u)

\* The transcript callbacks of the two panels: setInput / setText(transcript).
OnTranscript_Append(prev, transcript) == prev \o transcript

OnTranscript(prev, transcript) == transcript

\* recognition.onresult: join the transcripts of all results of the event.
ResultTranscript(results) == Flatten(results)

\* the stopListening() call made by a send handler that sees isListening
StopIfListening_Never == UNCHANGED <<refEngine, isListening>>

StopIfListening ==
    IF isListening
    THEN /\ refEngine' = RecognitionStop(refEngine)
         /\ isListening' = FALSE
    ELSE UNCHANGED <<refEngine, isListening>>

\* cancelSpeech()
CancelSpeech_Nothing == UNCHANGED <<synth, synthEvents, isSpeaking>>

CancelSpeech ==
    /\ synth' = <<>>
    /\ synthEvents' = SynthCancelEvents(synth, synthEvents)
    /\ isSpeaking' = FALSE

\* ------------------------------------------------------------ chat panels
Message(id, role, content, file) ==
    [id |-> id, role |-> role, content |-> content, file |-> file]

\* setMessages(prev => prev.map(m => m.id === id ? {...m, content} : m))
WriteContent(msgs, id, content) ==
    [i \in DOMAIN msgs |->
        IF msgs[i].id = id THEN [msgs[i] EXCEPT !.content = content] ELSE msgs[i]]

\* fullResponse += chunk.text
AppendChunk_Overwrite(full, chunk) == chunk

AppendChunk(full, chunk) == full \o chunk

ErrorContent(msg) == ErrorMarker \o msg

\* the guards of the two send handlers
InterviewCanSend_NoLoadingCheck(text, loading) == Trim(text) # <<>>

InterviewCanSend(text, loading) == Trim(text) # <<>> /\ ~loading

ChatInputCanSend_NoLoadingCheck(text, file, loading) == Trim(text) # <<>> \/ file # NoFile

ChatInputCanSend(text, file, loading) ==
    (Trim(text) # <<>> \/ file # NoFile) /\ ~loading

\* one run of a send handler: its position, the values of its closure (hist
\* is messages, notes the notes it hands on) and what it gave the gateway (ctx)
Request(pc, modelId, turnIx, out, text, file) ==
    [pc |-> pc, modelId |-> modelId, turnIx |-> turnIx, full |-> <<>>, k |-> 0,
     out |-> out, text |-> text, file |-> file,
     hist |-> <<>>, notes |-> NoNotes, ctx |-> NoInput]

Finished == {"done", "failed", "rejected"}

InFlight == {i \in DOMAIN reqs : reqs[i].pc \notin Finished}

\* ------------------------------------------- generator panels and modals
\* the panels that send one prompt and show one result, and the two modals
Generators == {"Summarizer", "QuizGenerator", "CodeDebugger", "CodeGenerator", "AIIdeaModal",
               "WebsiteBuilder", "ImageGenerator"}

Modals == {"AIIdeaModal", "AIFeedbackModal"}

\* the components that call useSpeech for playback
PlaybackOwners == (Generators \ {"WebsiteBuilder", "ImageGenerator"}) \cup {"AIFeedbackModal"}

\* panels that keep the index of the element being read (speakingQuestionIndex,
\* speakingIdeaIndex); the others show isSpeaking on their one button
IndexedPlayback == {"QuizGenerator", "AIIdeaModal"}

\* components with the effect useEffect(() => () => cancelSpeech(), [cancelSpeech])
CleanupCancels == {"Summarizer", "QuizGenerator", "CodeDebugger", "CodeGenerator",
                   "AIFeedbackModal"}

EmptyInputError(p) ==
    CASE p = "Summarizer" -> <<"Please enter some text or upload a file to summarize.">>
      [] p = "QuizGenerator" -> <<"Please enter a topic.">>
      [] p = "CodeDebugger" -> <<"Please enter some code to debug.">>
      [] p = "CodeGenerator" -> <<"Please enter a description of the code you want.">>
      [] p = "WebsiteBuilder" -> <<"Please describe the website you want to build.">>
      [] p = "ImageGenerator" -> <<"Please enter a prompt to generate images.">>
      [] OTHER -> <<"Please describe your interests.">>

FailurePrefix(p) ==
    CASE p = "Summarizer" -> <<"Failed to generate summary: ">>
      [] p = "QuizGenerator" -> <<"Failed to generate quiz: ">>
      [] p = "CodeDebugger" -> <<"Failed to debug code: ">>
      [] p = "CodeGenerator" -> <<"Failed to generate code: ">>
      [] p = "WebsiteBuilder" -> <<"Failed to generate website: ">>
      [] p = "ImageGenerator" -> <<"Failed to generate images: ">>
      [] OTHER -> <<>>

FileReadError == <<"Failed to read the uploaded file.">>

\* what the remote model can answer to the request of a generator panel
GenResponses(p) ==
    CASE p = "CodeGenerator" -> RemoteStreams
      [] p \in {"Summarizer", "ImageGenerator"} ->
            {[kind |-> "text", raw |-> r] : r \in {<<>>, <<"x">>}}
            \cup {[kind |-> "error", raw |-> <<>>]}
      [] p \in {"CodeDebugger", "WebsiteBuilder"} ->
            {[kind |-> "text", raw |-> r] : r \in {<<"O">>, <<"x">>}}
            \cup {[kind |-> "error", raw |-> <<>>]}
      [] OTHER ->
            {[kind |-> "text", raw |-> r] :
                r \in {<<"x">>, <<"[", "O", "]">>, <<"[", "O", ",", "E", "]">>}}
            \cup {[kind |-> "error", raw |-> <<>>]}

\* the gateway function the panel's handler awaits
GenCall(p, key, remote) ==
    CASE p = "Summarizer" -> summarizeText(key, remote)
      [] p = "QuizGenerator" -> generateQuiz(key, remote)
      [] p = "CodeDebugger" -> debugCode(key, remote)
      [] p = "CodeGenerator" -> generateCodeSnippetStream(key, remote)
      [] p = "WebsiteBuilder" -> generateWebsiteCode(key, remote)
      [] p = "ImageGenerator" -> generateImages(key, remote)
      [] OTHER -> getProjectIdeas(key, remote)

\* the result state of a panel: summary / generatedCode (text) or questions /
\* ideas / result / feedback (val)
NoResult == [text |-> <<>>, val |-> NoValue]

\* no gateway call of a generator panel is awaited; raw is response.text of
\* the call that is awaited
NoRequest == [pc |-> "none", out |-> NoOutcome, full |-> <<>>, k |-> 0, raw |-> <<>>]

\* response.text of the remote answer (a stream has none)
ResponseText(remote) == IF remote.kind = "text" THEN remote.raw ELSE <<>>

\* the text handed to speak() for a value the panel reads from a template
TemplateText == <<"Title: ", "Description: ">>

\* q.question of a parsed quiz item
QuestionText(item) ==
    IF item.t = "obj" /\ item.full /\ ~item.blank THEN <<"question">> ELSE <<>>

\* the texts of the elements that show a speaker button, in render order
PlaybackTexts(p, res, loading, open) ==
    CASE p \in {"Summarizer", "CodeGenerator"} ->
            IF res.text # <<>> /\ ~loading THEN <<res.text>> ELSE <<>>
      [] p = "CodeDebugger" ->
            IF res.val.t # "none" /\ ~loading THEN <<TemplateText>> ELSE <<>>
      [] p = "QuizGenerator" ->
            IF res.val.t = "arr"
            THEN [n \in DOMAIN res.val.items |-> QuestionText(res.val.items[n])]
            ELSE <<>>
      [] p = "AIIdeaModal" ->
            IF res.val.t = "arr" /\ open
            THEN [n \in DOMAIN res.val.items |-> TemplateText]
            ELSE <<>>
      [] OTHER ->
            IF res.val.t # "none" /\ open THEN <<TemplateText>> ELSE <<>>

\* if (!window.speechSynthesis || !text) return;
SpeakReturnsEarly(text) == text = <<>>

\* if (!topic.trim()) ... / if (!inputText.trim() && !selectedFile) ...
InputIsEmpty(p, text, file) ==
    IF p = "Summarizer" THEN Trim(text) = <<>> /\ file = NoFile ELSE Trim(text) = <<>>

\* the state of a generator panel or modal when it is mounted
GenInit ==
    /\ result = NoResult
    /\ error = <<>>
    /\ speakingIndex = NoIndex
    /\ genReq = NoRequest
    /\ genSends = 0
    /\ isOpen = FALSE
    /\ mounted = TRUE

\* the state of SkillTracker when it is mounted
SkillInit ==
    /\ isLoadingFeedback = NoGoal
    /\ fbReqs = <<>>
    /\ notification = <<>>

Init ==
    /\ panel \in Panels
    /\ apiKey \in BOOLEAN
    /\ now = 0
    /\ messages = IF panel = "InterviewTrainer"
                  THEN <<Message(InitId(0), "model", Greeting, NoFile)>>
                  ELSE <<>>
    /\ isLoading = FALSE
    /\ input = <<>>
    /\ selectedFile = NoFile
    /\ reqs = <<>>
    /\ netCalls = 0
    /\ isListening = FALSE
    /\ refEngine = NewRecognition(FALSE)
    /\ engines = <<>>
    /\ lastResult = <<>>
    /\ synth = <<>>
    /\ synthEvents = 0
    /\ uttCount = 0
    /\ isSpeaking = FALSE
    /\ speakingMessageId = NoId
    /\ effSpeaking = FALSE
    /\ effectPending = FALSE
    /\ lastOp = "other"
    /\ gwOp = "none"
    /\ gwRaw = <<>>
    /\ gwOut = NoOutcome
    /\ gwNet = 0
    /\ GenInit
    /\ SkillInit

\* Date.now() advances
Tick ==
    /\ now < MaxTime
    /\ now' = now + 1
    /\ lastOp' = "other"
    /\ UNCHANGED <<panel, skillVars, apiKey, chatVars, recVars, synthVars, effectPending, gwVars, genVars>>

\* setInput(value) / setText(value): onChange of the textarea.  The transcript
\* callback makes the same update at any time, also while a request is loading.
TypeInput ==
    /\ mounted
    /\ \E t \in TypedTexts :
        /\ t # input
        /\ input' = t
    /\ effectPending' = TRUE
    /\ lastOp' = "other"
    /\ UNCHANGED <<panel, skillVars, apiKey, now, messages, isLoading, selectedFile, reqs, netCalls,
                   recVars, synthVars, gwVars, genVars>>

\* onChange of the file input of ChatInput
SelectFile ==
    /\ panel = "Explainer"
    /\ selectedFile = NoFile
    /\ \E f \in Files : selectedFile' = f
    /\ effectPending' = TRUE
    /\ lastOp' = "other"
    /\ UNCHANGED <<panel, skillVars, apiKey, now, messages, isLoading, input, reqs, netCalls,
                   recVars, synthVars, gwVars, genVars>>

\* InterviewTrainer.handleSendMessage up to its first await
InterviewTrainerSend ==
    /\ panel = "InterviewTrainer"
    /\ Len(reqs) < MaxSends
    /\ mounted
    /\ InterviewCanSend(input, isLoading)
    /\ StopIfListening
    /\ CancelSpeech
    /\ \E remote \in RemoteStreams :
        LET out == startInterviewChat(apiKey, remote)
            userMessage == Message(UserId(now), "user", input, NoFile)
            modelMessage == Message(ModelId(now), "model", <<>>, NoFile)
        IN /\ messages' = messages \o <<userMessage, modelMessage>>
           /\ reqs' = Append(reqs, [Request("creating", modelMessage.id,
                                            Len(messages) + 2, out, <<>>, NoFile)
                                    EXCEPT !.ctx = InterviewInput(apiKey, messages, input)])
           /\ netCalls' = netCalls + out.net
    /\ input' = <<>>
    /\ isLoading' = TRUE
    /\ effectPending' = TRUE
    /\ lastOp' = "request"
    /\ UNCHANGED <<panel, skillVars, apiKey, now, selectedFile, engines, lastResult,
                   uttCount, speakingMessageId, effSpeaking, gwVars, genVars>>

\* ChatInput.handleSend calling Explainer.handleSendMessage up to its first await
ChatInputSend ==
    /\ panel = "Explainer"
    /\ Len(reqs) < MaxSends
    /\ mounted
    /\ ChatInputCanSend(input, selectedFile, isLoading)
    /\ isLoading' = TRUE
    /\ CancelSpeech
    /\ \E notesToSearch \in NotesArgs :
       IF selectedFile # NoFile
       THEN /\ reqs' = Append(reqs, [Request("reading", NoId, 0, NoOutcome, input, selectedFile)
                                     EXCEPT !.hist = messages, !.notes = notesToSearch])
            /\ UNCHANGED <<messages, netCalls>>
       ELSE \E remote \in RemoteStreams :
            LET out == generateExplanationStream(apiKey, remote)
                userMessage == Message(UserId(now), "user", input, NoFile)
                modelMessage == Message(ModelId(now), "model", <<>>, NoFile)
            IN /\ messages' = messages \o <<userMessage, modelMessage>>
               /\ reqs' = Append(reqs, [Request("creating", modelMessage.id,
                                                Len(messages) + 2, out, <<>>, NoFile)
                                        EXCEPT !.notes = notesToSearch,
                                               !.ctx = ExplanationInput(apiKey, messages, input,
                                                                        NoFile, notesToSearch)])
               /\ netCalls' = netCalls + out.net
    /\ input' = <<>>
    /\ selectedFile' = NoFile
    /\ StopIfListening
    /\ effectPending' = TRUE
    /\ lastOp' = "request"
    /\ UNCHANGED <<panel, skillVars, apiKey, now, engines, lastResult,
                   uttCount, speakingMessageId, effSpeaking, gwVars, genVars>>

\* InterviewTrainer.handleSendMessage called (Enter key) with an empty or
\* white-space input: if (!input.trim() || isLoading) return;
InterviewTrainerSendIgnored ==
    /\ panel = "InterviewTrainer"
    /\ mounted
    /\ ~isLoading
    /\ ~InterviewCanSend(input, isLoading)
    /\ lastOp' = "inputRejected"
    /\ UNCHANGED <<panel, skillVars, apiKey, now, chatVars, recVars, synthVars, effectPending, gwVars,
                   genVars>>

\* ChatInput.handleSend called (Enter key) with no text and no file: the
\* condition of its if is false and nothing is done
ChatInputSendIgnored ==
    /\ panel = "Explainer"
    /\ mounted
    /\ ~isLoading
    /\ ~ChatInputCanSend(input, selectedFile, isLoading)
    /\ lastOp' = "inputRejected"
    /\ UNCHANGED <<panel, skillVars, apiKey, now, chatVars, recVars, synthVars, effectPending, gwVars,
                   genVars>>

\* await readFileAsBase64(file) resolves: the turns are appended and the
\* stream is requested
FileReadOk ==
    \E i \in DOMAIN reqs :
        /\ reqs[i].pc = "reading"
        /\ "ok" \in FileReadOutcomes
        /\ \E remote \in RemoteStreams :
            LET out == generateExplanationStream(apiKey, remote)
                userMessage == Message(UserId(now), "user", reqs[i].text, reqs[i].file)
                modelMessage == Message(ModelId(now), "model", <<>>, NoFile)
            IN /\ messages' = messages \o <<userMessage, modelMessage>>
               /\ reqs' = [reqs EXCEPT ![i] =
                             [Request("creating", modelMessage.id,
                                      Len(messages) + 2, out, <<>>, NoFile)
                              EXCEPT !.notes = reqs[i].notes,
                                     !.ctx = ExplanationInput(apiKey, reqs[i].hist, reqs[i].text,
                                                              reqs[i].file, reqs[i].notes)]]
               /\ netCalls' = netCalls + out.net
        /\ effectPending' = TRUE
        /\ lastOp' = "other"
        /\ UNCHANGED <<panel, skillVars, apiKey, now, isLoading, input, selectedFile,
                       recVars, synthVars, gwVars, genVars>>

\* await readFileAsBase64(file) rejects: the await is outside the try block,
\* so the handler ends with the rejection
FileReadFail ==
    \E i \in DOMAIN reqs :
        /\ reqs[i].pc = "reading"
        /\ "error" \in FileReadOutcomes
        /\ reqs' = [reqs EXCEPT ![i] = Request("rejected", NoId, 0, NoOutcome, <<>>, NoFile)]
        /\ lastOp' = "other"
        /\ UNCHANGED <<panel, skillVars, apiKey, now, messages, isLoading, input, selectedFile, netCalls,
                       recVars, synthVars, effectPending, gwVars, genVars>>

\* await of the stream promise resolves: the call has returned and its
\* arguments are gone
StreamOpened ==
    \E i \in DOMAIN reqs :
        /\ reqs[i].pc = "creating"
        /\ reqs[i].out.kind = "stream"
        /\ reqs' = [reqs EXCEPT ![i].pc = "streaming", ![i].notes = NoNotes,
                                ![i].ctx = NoInput]
        /\ lastOp' = "other"
        /\ UNCHANGED <<panel, skillVars, apiKey, now, messages, isLoading, input, selectedFile, netCalls,
                       recVars, synthVars, effectPending, gwVars, genVars>>

\* catch and finally of the send handlers
CatchFinally(i, msg) ==
    /\ messages' = WriteContent(messages, reqs[i].modelId, ErrorContent(msg))
    /\ isLoading' = FALSE
    /\ reqs' = [reqs EXCEPT ![i] = Request("failed", @.modelId, @.turnIx, NoOutcome, <<>>, NoFile)]
    /\ effectPending' = TRUE

\* await of the stream promise rejects
StreamOpenFailed ==
    \E i \in DOMAIN reqs :
        /\ reqs[i].pc = "creating"
        /\ reqs[i].out.kind = "error"
        /\ CatchFinally(i, reqs[i].out.msg)
        /\ lastOp' = "other"
        /\ UNCHANGED <<panel, skillVars, apiKey, now, input, selectedFile, netCalls,
                       recVars, synthVars, gwVars, genVars>>

\* one iteration of for await (const chunk of stream)
NextChunk ==
    \E i \in DOMAIN reqs :
        /\ reqs[i].pc = "streaming"
        /\ reqs[i].k < Len(reqs[i].out.frags)
        /\ LET fullResponse == AppendChunk(reqs[i].full, reqs[i].out.frags[reqs[i].k + 1])
           IN /\ reqs' = [reqs EXCEPT ![i].full = fullResponse, ![i].k = @ + 1]
              /\ messages' = WriteContent(messages, reqs[i].modelId, fullResponse)
        /\ effectPending' = TRUE
        /\ lastOp' = "other"
        /\ UNCHANGED <<panel, skillVars, apiKey, now, isLoading, input, selectedFile, netCalls,
                       recVars, synthVars, gwVars, genVars>>

\* the stream ends: finally
StreamDone ==
    \E i \in DOMAIN reqs :
        /\ reqs[i].pc = "streaming"
        /\ reqs[i].k = Len(reqs[i].out.frags)
        /\ ~reqs[i].out.fail
        /\ reqs' = [reqs EXCEPT ![i].pc = "done", ![i].full = <<>>, ![i].k = 0]
        /\ isLoading' = FALSE
        /\ effectPending' = TRUE
        /\ lastOp' = "other"
        /\ UNCHANGED <<panel, skillVars, apiKey, now, messages, input, selectedFile, netCalls,
                       recVars, synthVars, gwVars, genVars>>

\* the stream throws between fragments: catch and finally
StreamFail ==
    \E i \in DOMAIN reqs :
        /\ reqs[i].pc = "streaming"
        /\ reqs[i].k = Len(reqs[i].out.frags)
        /\ reqs[i].out.fail
        /\ CatchFinally(i, TransportError)
        /\ lastOp' = "other"
        /\ UNCHANGED <<panel, skillVars, apiKey, now, input, selectedFile, netCalls,
                       recVars, synthVars, gwVars, genVars>>


\* ------------------------------------------------- recognition (useSpeech)
\* if (recognitionRef.current && !isListening): the effect has always put a
\* recognition into recognitionRef
CanStartListening_Always(listening) == TRUE

CanStartListening(listening) == ~listening

\* startListening(): start() throws on a recognition that is already started
\* and the catch leaves the state alone
StartListening ==
    /\ CanStartListening(isListening)
    /\ refEngine.phase = "idle"
    /\ RunningCount < MaxEngines
    /\ refEngine' = [refEngine EXCEPT !.phase = "running", !.res = <<>>]
    /\ isListening' = TRUE
    /\ effectPending' = TRUE
    /\ lastOp' = "other"
    /\ UNCHANGED <<panel, skillVars, apiKey, now, chatVars, engines, lastResult, synthVars, gwVars, genVars>>

\* stopListening()
StopListening ==
    /\ isListening
    /\ refEngine' = RecognitionStop(refEngine)
    /\ isListening' = FALSE
    /\ effectPending' = TRUE
    /\ lastOp' = "other"
    /\ UNCHANGED <<panel, skillVars, apiKey, now, chatVars, engines, lastResult, synthVars, gwVars, genVars>>

\* the results list of a recognition after one more result event: the last
\* result is revised (interim to interim or final) or a new result is added
NextResults(res) ==
    {[res EXCEPT ![Len(res)] = h] : h \in {g \in Hypotheses : res # <<>> /\ g # res[Len(res)]}}
    \cup {Append(res, h) : h \in {g \in Hypotheses : Len(res) < MaxSegments}}

\* recognition.onresult of the recognition held by recognitionRef
RefEngineResult ==
    /\ refEngine.phase # "idle"
    /\ \E res \in NextResults(refEngine.res) :
        /\ refEngine' = [refEngine EXCEPT !.res = res]
        /\ lastResult' = res
        /\ input' = OnTranscript(input, ResultTranscript(res))
    /\ effectPending' = (effectPending \/ input' # input)
    /\ lastOp' = "onresult"
    /\ UNCHANGED <<panel, skillVars, apiKey, now, messages, isLoading, selectedFile, reqs, netCalls,
                   isListening, engines, synthVars, gwVars, genVars>>

\* recognition.onresult of a recognition that recognitionRef no longer holds
OldEngineResult ==
    /\ \E e \in DOMAIN engines : \E res \in NextResults(engines[e].res) :
        /\ engines' = [engines EXCEPT ![e].res = res]
        /\ lastResult' = res
        /\ input' = OnTranscript(input, ResultTranscript(res))
    /\ effectPending' = (effectPending \/ input' # input)
    /\ lastOp' = "onresult"
    /\ UNCHANGED <<panel, skillVars, apiKey, now, messages, isLoading, selectedFile, reqs, netCalls,
                   isListening, refEngine, synthVars, gwVars, genVars>>

\* recognition.onend: if (isListening) recognition.start(), with the
\* isListening of the render whose effect created the recognition
OnEnd(rec) ==
    IF rec.clos THEN [rec EXCEPT !.phase = "running", !.res = <<>>]
    ELSE [rec EXCEPT !.phase = "idle", !.res = <<>>]

RemoveAt(s, e) == [j \in 1..(Len(s) - 1) |-> IF j < e THEN s[j] ELSE s[j + 1]]

\* the engine ends the recognition held by recognitionRef
RefEngineEnd ==
    /\ refEngine.phase # "idle"
    /\ refEngine' = OnEnd(refEngine)
    /\ lastOp' = "other"
    /\ UNCHANGED <<panel, skillVars, apiKey, now, chatVars, isListening, engines, lastResult,
                   synthVars, effectPending, gwVars, genVars>>

\* the engine ends a recognition that recognitionRef no longer holds
OldEngineEnd ==
    /\ \E e \in DOMAIN engines :
        engines' = IF OnEnd(engines[e]).phase = "idle"
                   THEN RemoveAt(engines, e)
                   ELSE [engines EXCEPT ![e] = OnEnd(engines[e])]
    /\ lastOp' = "other"
    /\ UNCHANGED <<panel, skillVars, apiKey, now, chatVars, isListening, refEngine, lastResult,
                   synthVars, effectPending, gwVars, genVars>>

\* --------------------------------------------------- synthesis (useSpeech)
\* the speaker button exists for model turns with content while not loading
Speakable_WhileLoading ==
    {i \in DOMAIN messages : messages[i].role = "model" /\ messages[i].content # <<>>}

Speakable == {i \in DOMAIN messages :
                messages[i].role = "model" /\ messages[i].content # <<>> /\ ~isLoading}

\* handleToggleSpeech(msg), speakingMessageId # msg.id: speak(msg.content)
ToggleSpeechOn ==
    /\ panel \in Panels
    /\ mounted
    /\ synthEvents + Len(synth) < MaxPendingEvents
    /\ uttCount < MaxUtterances
    /\ \E i \in Speakable :
        /\ speakingMessageId # messages[i].id
        /\ synth' = SpeakQueue(synth, [tok |-> uttCount + 1, started |-> FALSE,
                                       text |-> messages[i].content])
        /\ speakingMessageId' = messages[i].id
    /\ synthEvents' = SynthCancelEvents(synth, synthEvents)
    /\ uttCount' = uttCount + 1
    /\ effectPending' = TRUE
    /\ lastOp' = "speak"
    /\ UNCHANGED <<panel, skillVars, apiKey, now, chatVars, recVars, isSpeaking, effSpeaking, gwVars, genVars>>

\* handleToggleSpeech(msg), speakingMessageId = msg.id: cancelSpeech()
ToggleSpeechOff ==
    /\ panel \in Panels
    /\ mounted
    /\ \E i \in Speakable : speakingMessageId = messages[i].id
    /\ CancelSpeech
    /\ effectPending' = (effectPending \/ isSpeaking)
    /\ lastOp' = "cancel"
    /\ UNCHANGED <<panel, skillVars, apiKey, now, chatVars, recVars, uttCount, speakingMessageId,
                   effSpeaking, gwVars, genVars>>

\* the engine starts the utterance at the head of its queue: utterance.onstart
UttStart ==
    /\ synth # <<>>
    /\ ~synth[1].started
    /\ synth' = [synth EXCEPT ![1].started = TRUE]
    /\ isSpeaking' = TRUE
    /\ effectPending' = (effectPending \/ ~isSpeaking)
    /\ lastOp' = "other"
    /\ UNCHANGED <<panel, skillVars, apiKey, now, chatVars, recVars, synthEvents, uttCount,
                   speakingMessageId, effSpeaking, gwVars, genVars>>

\* the utterance being spoken completes: utterance.onend
UttEnd ==
    /\ synth # <<>>
    /\ synth[1].started
    /\ synth' = Tail(synth)
    /\ isSpeaking' = FALSE
    /\ effectPending' = (effectPending \/ isSpeaking)
    /\ lastOp' = "other"
    /\ UNCHANGED <<panel, skillVars, apiKey, now, chatVars, recVars, synthEvents, uttCount,
                   speakingMessageId, effSpeaking, gwVars, genVars>>

\* the end/error event of a cancelled utterance is delivered
SynthEvent ==
    /\ synthEvents > 0
    /\ synthEvents' = synthEvents - 1
    /\ isSpeaking' = FALSE
    /\ effectPending' = (effectPending \/ isSpeaking)
    /\ lastOp' = "other"
    /\ UNCHANGED <<panel, skillVars, apiKey, now, chatVars, recVars, synth, uttCount,
                   speakingMessageId, effSpeaking, gwVars, genVars>>

\* the passive effects of the last render: the cleanup of the useSpeech
\* effect (speechSynthesis.cancel()), its body (a new SpeechRecognition in
\* recognitionRef) and the panels' effect on [isSpeaking]
RunEffects ==
    /\ panel \in Panels
    /\ mounted
    /\ effectPending
    /\ synth' = <<>>
    /\ synthEvents' = SynthCancelEvents(synth, synthEvents)
    /\ engines' = IF refEngine.phase = "idle" THEN engines ELSE Append(engines, refEngine)
    /\ refEngine' = NewRecognition(isListening)
    /\ effSpeaking' = isSpeaking
    /\ IF isSpeaking # effSpeaking /\ ~isSpeaking /\ speakingMessageId # NoId
       THEN /\ speakingMessageId' = NoId
            /\ effectPending' = TRUE
       ELSE /\ effectPending' = FALSE
            /\ UNCHANGED speakingMessageId
    /\ lastOp' = "other"
    /\ UNCHANGED <<panel, skillVars, apiKey, now, chatVars, isListening, lastResult, uttCount,
                   isSpeaking, gwVars, genVars>>

\* ----------------------------------------- generator panels: the requests
\* the panel is on screen: a modal renders nothing while it is closed
Shown == mounted /\ (panel \in Modals => isOpen)

\* handleFileChange of Summarizer
SummarizerSelectFile ==
    /\ panel = "Summarizer"
    /\ mounted
    /\ ~isLoading
    /\ selectedFile = NoFile
    /\ \E f \in Files : selectedFile' = f
    /\ error' = <<>>
    /\ effectPending' = TRUE
    /\ lastOp' = "other"
    /\ UNCHANGED <<panel, skillVars, apiKey, now, messages, isLoading, input, reqs, netCalls,
                   recVars, synthVars, gwVars,
                   result, speakingIndex, genReq, genSends, isOpen, mounted>>

\* handleSummarize / handleGenerateQuiz / handleDebug / handleGenerate with an
\* empty prompt: the error is set and the handler returns
GenerateRejected ==
    /\ panel \in Generators
    /\ Shown
    /\ ~isLoading
    /\ InputIsEmpty(panel, input, selectedFile)
    /\ error' = EmptyInputError(panel)
    /\ effectPending' = (effectPending \/ error' # error)
    /\ lastOp' = "inputRejected"
    /\ UNCHANGED <<panel, skillVars, apiKey, now, chatVars, recVars, synthVars, gwVars,
                   result, speakingIndex, genReq, genSends, isOpen, mounted>>

\* the same handlers with a prompt, up to their first await
GenerateSend ==
    /\ panel \in Generators
    /\ Shown
    /\ ~isLoading
    /\ genSends < MaxRequests
    /\ ~InputIsEmpty(panel, input, selectedFile)
    /\ isLoading' = TRUE
    /\ error' = <<>>
    /\ result' = NoResult
    /\ CancelSpeech
    /\ IF panel = "Summarizer" /\ selectedFile # NoFile
       THEN /\ genReq' = [NoRequest EXCEPT !.pc = "reading"]
            /\ UNCHANGED netCalls
       ELSE \E remote \in GenResponses(panel) :
            LET out == GenCall(panel, apiKey, remote)
            IN /\ genReq' = [NoRequest EXCEPT !.pc = "awaiting", !.out = out,
                                              !.raw = ResponseText(remote)]
               /\ netCalls' = netCalls + out.net
    /\ genSends' = genSends + 1
    /\ effectPending' = TRUE
    /\ lastOp' = "request"
    /\ UNCHANGED <<panel, skillVars, apiKey, now, messages, input, selectedFile, reqs,
                   recVars, uttCount, speakingMessageId, effSpeaking, gwVars,
                   speakingIndex, isOpen, mounted>>

\* Summarizer: await readFileAsBase64(selectedFile) resolves
GenFileReadOk ==
    /\ mounted
    /\ genReq.pc = "reading"
    /\ "ok" \in FileReadOutcomes
    /\ \E remote \in GenResponses(panel) :
        LET out == GenCall(panel, apiKey, remote)
        IN /\ genReq' = [genReq EXCEPT !.pc = "awaiting", !.out = out,
                                          !.raw = ResponseText(remote)]
           /\ netCalls' = netCalls + out.net
    /\ lastOp' = "other"
    /\ UNCHANGED <<panel, skillVars, apiKey, now, messages, isLoading, input, selectedFile, reqs,
                   recVars, synthVars, effectPending, gwVars,
                   result, error, speakingIndex, genSends, isOpen, mounted>>

\* Summarizer: await readFileAsBase64(selectedFile) rejects: catch, return
GenFileReadFail ==
    /\ mounted
    /\ genReq.pc = "reading"
    /\ "error" \in FileReadOutcomes
    /\ error' = FileReadError
    /\ isLoading' = FALSE
    /\ genReq' = NoRequest
    /\ effectPending' = TRUE
    /\ lastOp' = "other"
    /\ UNCHANGED <<panel, skillVars, apiKey, now, messages, input, selectedFile, reqs, netCalls,
                   recVars, synthVars, gwVars,
                   result, speakingIndex, genSends, isOpen, mounted>>

\* the awaited gateway call returns its value: setSummary / setQuestions /
\* setResult / setIdeas, finally
GenerateResolved ==
    /\ mounted
    /\ genReq.pc = "awaiting"
    /\ genReq.out.kind \in {"value", "text"}
    /\ result' = [text |-> IF genReq.out.kind = "text" THEN genReq.out.msg ELSE <<>>,
                  val |-> genReq.out.val]
    /\ isLoading' = FALSE
    /\ genReq' = NoRequest
    /\ effectPending' = TRUE
    /\ lastOp' = "other"
    /\ UNCHANGED <<panel, skillVars, apiKey, now, messages, input, selectedFile, reqs, netCalls,
                   recVars, synthVars, gwVars,
                   error, speakingIndex, genSends, isOpen, mounted>>

\* the awaited gateway call throws: catch, finally
GenerateFailed ==
    /\ mounted
    /\ genReq.pc = "awaiting"
    /\ genReq.out.kind = "error"
    /\ error' = FailurePrefix(panel) \o genReq.out.msg
    /\ isLoading' = FALSE
    /\ genReq' = NoRequest
    /\ effectPending' = TRUE
    /\ lastOp' = "other"
    /\ UNCHANGED <<panel, skillVars, apiKey, now, messages, input, selectedFile, reqs, netCalls,
                   recVars, synthVars, gwVars,
                   result, speakingIndex, genSends, isOpen, mounted>>

\* CodeGenerator: await generateCodeSnippetStream resolves
GenStreamOpened ==
    /\ mounted
    /\ genReq.pc = "awaiting"
    /\ genReq.out.kind = "stream"
    /\ genReq' = [genReq EXCEPT !.pc = "streaming"]
    /\ lastOp' = "other"
    /\ UNCHANGED <<panel, skillVars, apiKey, now, chatVars, recVars, synthVars, effectPending, gwVars,
                   result, error, speakingIndex, genSends, isOpen, mounted>>

\* CodeGenerator: one iteration of for await (const chunk of stream)
GenNextChunk ==
    /\ mounted
    /\ genReq.pc = "streaming"
    /\ genReq.k < Len(genReq.out.frags)
    /\ LET fullResponse == AppendChunk(genReq.full, genReq.out.frags[genReq.k + 1])
       IN /\ genReq' = [genReq EXCEPT !.full = fullResponse, !.k = @ + 1]
          /\ result' = [result EXCEPT !.text = fullResponse]
    /\ effectPending' = TRUE
    /\ lastOp' = "other"
    /\ UNCHANGED <<panel, skillVars, apiKey, now, chatVars, recVars, synthVars, gwVars,
                   error, speakingIndex, genSends, isOpen, mounted>>

\* CodeGenerator: the stream ends: finally
GenStreamDone ==
    /\ mounted
    /\ genReq.pc = "streaming"
    /\ genReq.k = Len(genReq.out.frags)
    /\ ~genReq.out.fail
    /\ isLoading' = FALSE
    /\ genReq' = NoRequest
    /\ effectPending' = TRUE
    /\ lastOp' = "other"
    /\ UNCHANGED <<panel, skillVars, apiKey, now, messages, input, selectedFile, reqs, netCalls,
                   recVars, synthVars, gwVars,
                   result, error, speakingIndex, genSends, isOpen, mounted>>

\* CodeGenerator: the stream throws between fragments: catch, finally
GenStreamFail ==
    /\ mounted
    /\ genReq.pc = "streaming"
    /\ genReq.k = Len(genReq.out.frags)
    /\ genReq.out.fail
    /\ error' = FailurePrefix(panel) \o TransportError
    /\ isLoading' = FALSE
    /\ genReq' = NoRequest
    /\ effectPending' = TRUE
    /\ lastOp' = "other"
    /\ UNCHANGED <<panel, skillVars, apiKey, now, messages, input, selectedFile, reqs, netCalls,
                   recVars, synthVars, gwVars,
                   result, speakingIndex, genSends, isOpen, mounted>>

\* ----------------------------------------- generator panels: the playback
\* handleToggleSpeech, the branch that calls speak(text); the panels that keep
\* an index then call setSpeakingQuestionIndex / setSpeakingIdeaIndex
GenToggleSpeechOn ==
    /\ panel \in PlaybackOwners
    /\ mounted
    /\ synthEvents + Len(synth) < MaxPendingEvents
    /\ uttCount < MaxUtterances
    /\ \E n \in DOMAIN PlaybackTexts(panel, result, isLoading, isOpen) :
        LET text == PlaybackTexts(panel, result, isLoading, isOpen)[n]
        IN /\ IF panel \in IndexedPlayback THEN speakingIndex # n ELSE ~isSpeaking
           /\ IF SpeakReturnsEarly(text)
              THEN UNCHANGED <<synth, synthEvents, uttCount>>
              ELSE /\ synth' = SpeakQueue(synth, [tok |-> uttCount + 1, started |-> FALSE,
                                                  text |-> text])
                   /\ synthEvents' = SynthCancelEvents(synth, synthEvents)
                   /\ uttCount' = uttCount + 1
           /\ speakingIndex' = IF panel \in IndexedPlayback THEN n ELSE speakingIndex
    /\ effectPending' = (effectPending \/ speakingIndex' # speakingIndex)
    /\ lastOp' = "speak"
    /\ UNCHANGED <<panel, skillVars, apiKey, now, chatVars, recVars, isSpeaking, speakingMessageId,
                   effSpeaking, gwVars, result, error, genReq, genSends, isOpen, mounted>>

\* handleToggleSpeech, the branch that calls cancelSpeech()
GenToggleSpeechOff ==
    /\ panel \in PlaybackOwners
    /\ mounted
    /\ \E n \in DOMAIN PlaybackTexts(panel, result, isLoading, isOpen) :
        IF panel \in IndexedPlayback THEN speakingIndex = n ELSE isSpeaking
    /\ CancelSpeech
    /\ effectPending' = (effectPending \/ isSpeaking)
    /\ lastOp' = "cancel"
    /\ UNCHANGED <<panel, skillVars, apiKey, now, chatVars, recVars, uttCount, speakingMessageId,
                   effSpeaking, gwVars, genVars>>

\* the passive effects of the last render of a generator panel or modal: the
\* cleanups (speechSynthesis.cancel() of useSpeech, cancelSpeech() of the
\* panel's own effect), then the bodies (AIIdeaModal: cancelSpeech() while it
\* is closed; the effect on [isSpeaking] that clears the index)
GenRunEffects ==
    /\ panel \in PlaybackOwners
    /\ mounted
    /\ effectPending
    /\ synth' = <<>>
    /\ synthEvents' = SynthCancelEvents(synth, synthEvents)
    /\ isSpeaking' = IF panel \in CleanupCancels \/ (panel = "AIIdeaModal" /\ ~isOpen)
                     THEN FALSE ELSE isSpeaking
    /\ effSpeaking' = isSpeaking
    /\ speakingIndex' = IF panel \in IndexedPlayback /\ isSpeaking # effSpeaking /\ ~isSpeaking
                        THEN NoIndex ELSE speakingIndex
    /\ effectPending' = (isSpeaking' # isSpeaking \/ speakingIndex' # speakingIndex)
    /\ lastOp' = "other"
    /\ UNCHANGED <<panel, skillVars, apiKey, now, chatVars, recVars, uttCount, speakingMessageId, gwVars,
                   result, error, genReq, genSends, isOpen, mounted>>

\* ------------------------------------------------- mounting and the modals
\* ProjectPlanner opens the idea modal; SkillTracker sets the feedback it got
OpenModal ==
    /\ panel \in Modals
    /\ mounted
    /\ ~isOpen
    /\ isOpen' = TRUE
    /\ result' = IF panel = "AIFeedbackModal"
                 THEN [text |-> <<>>, val |-> JsonObject("O")] ELSE result
    /\ effectPending' = TRUE
    /\ lastOp' = "other"
    /\ UNCHANGED <<panel, skillVars, apiKey, now, chatVars, recVars, synthVars, gwVars,
                   error, speakingIndex, genReq, genSends, mounted>>

\* onClose: setIdeaModalOpen(false) / setAIFeedback(null)
CloseModal ==
    /\ panel \in Modals
    /\ mounted
    /\ isOpen
    /\ isOpen' = FALSE
    /\ result' = IF panel = "AIFeedbackModal" THEN NoResult ELSE result
    /\ effectPending' = TRUE
    /\ lastOp' = "close"
    /\ UNCHANGED <<panel, skillVars, apiKey, now, chatVars, recVars, synthVars, gwVars,
                   error, speakingIndex, genReq, genSends, mounted>>

\* App shows another view: the component is unmounted, the cleanups of its
\* effects run (speechSynthesis.cancel() of useSpeech, cancelSpeech()) and
\* its state is discarded; what its handlers still set is ignored
Unmount ==
    /\ mounted
    /\ mounted' = FALSE
    /\ synth' = <<>>
    /\ synthEvents' = SynthCancelEvents(synth, synthEvents)
    /\ messages' = <<>>
    /\ isLoading' = FALSE
    /\ input' = <<>>
    /\ selectedFile' = NoFile
    /\ reqs' = <<>>
    /\ isSpeaking' = FALSE
    /\ speakingMessageId' = NoId
    /\ effSpeaking' = FALSE
    /\ result' = NoResult
    /\ error' = <<>>
    /\ speakingIndex' = NoIndex
    /\ genReq' = NoRequest
    /\ isOpen' = FALSE
    /\ effectPending' = FALSE
    /\ lastOp' = "unmount"
    /\ UNCHANGED <<panel, skillVars, apiKey, now, netCalls, recVars, uttCount, gwVars, genSends>>

\* the chat panels
Next ==
    \/ Tick
    \/ TypeInput
    \/ SelectFile
    \/ InterviewTrainerSend
    \/ ChatInputSend
    \/ FileReadOk
    \/ FileReadFail
    \/ StreamOpened
    \/ StreamOpenFailed
    \/ NextChunk
    \/ StreamDone
    \/ StreamFail

Spec == Init /\ [][Next]_vars

\* the useSpeech hook inside a panel
NextSpeech ==
    \/ TypeInput
    \/ StartListening
    \/ StopListening
    \/ RefEngineResult
    \/ OldEngineResult
    \/ RefEngineEnd
    \/ OldEngineEnd
    \/ ToggleSpeechOn
    \/ ToggleSpeechOff
    \/ UttStart
    \/ UttEnd
    \/ SynthEvent
    \/ RunEffects

\* a panel as Spec leaves it after one answered question
AfterExchange ==
    /\ apiKey = TRUE
    /\ now = 0
    /\ messages = (IF panel = "InterviewTrainer"
                   THEN <<Message(InitId(0), "model", Greeting, NoFile)>>
                   ELSE <<>>)
                  \o <<Message(UserId(0), "user", <<"q">>, NoFile),
                       Message(ModelId(0), "model", <<"a">>, NoFile)>>
    /\ isLoading = FALSE
    /\ input = <<>>
    /\ selectedFile = NoFile
    /\ reqs = <<[Request("done", ModelId(0), Len(messages), NoOutcome, <<>>, NoFile)
                  EXCEPT !.out = startInterviewChat(TRUE,
                      [kind |-> "stream", frags |-> << <<"a">> >>, fail |-> FALSE, msg |-> <<>>])]>>
    /\ netCalls = 1
    /\ isListening = FALSE
    /\ refEngine = NewRecognition(FALSE)
    /\ engines = <<>>
    /\ lastResult = <<>>
    /\ synth = <<>>
    /\ synthEvents = 0
    /\ uttCount = 0
    /\ isSpeaking = FALSE
    /\ speakingMessageId = NoId
    /\ effSpeaking = FALSE
    /\ effectPending = TRUE
    /\ lastOp = "other"
    /\ gwOp = "none"
    /\ gwRaw = <<>>
    /\ gwOut = NoOutcome
    /\ gwNet = 0
    /\ GenInit
    /\ SkillInit

InitSpeech ==
    /\ panel \in Panels
    /\ Init \/ AfterExchange

SpecSpeech == InitSpeech /\ [][NextSpeech]_vars

\* a chat panel with the microphone of its input: sends while listening (of
\* the requests only those end whose stream cannot be opened)
NextListen ==
    \/ TypeInput
    \/ InterviewTrainerSend
    \/ ChatInputSend
    \/ StreamOpenFailed
    \/ StartListening
    \/ StopListening
    \/ RefEngineResult
    \/ OldEngineResult
    \/ RefEngineEnd
    \/ OldEngineEnd
    \/ RunEffects

SpecListen == Init /\ [][NextListen]_vars

\* the panels and modals that own playback, each mounted on its own, with
\* their requests and their playback together
NextPanels ==
    \/ Tick
    \/ TypeInput
    \/ InterviewTrainerSend
    \/ InterviewTrainerSendIgnored
    \/ ChatInputSend
    \/ ChatInputSendIgnored
    \/ StreamOpened
    \/ StreamOpenFailed
    \/ NextChunk
    \/ StreamDone
    \/ StreamFail
    \/ ToggleSpeechOn
    \/ ToggleSpeechOff
    \/ RunEffects
    \/ SummarizerSelectFile
    \/ GenerateRejected
    \/ GenerateSend
    \/ GenFileReadOk
    \/ GenFileReadFail
    \/ GenerateResolved
    \/ GenerateFailed
    \/ GenStreamOpened
    \/ GenNextChunk
    \/ GenStreamDone
    \/ GenStreamFail
    \/ GenToggleSpeechOn
    \/ GenToggleSpeechOff
    \/ UttStart
    \/ UttEnd
    \/ SynthEvent
    \/ GenRunEffects
    \/ OpenModal
    \/ CloseModal
    \/ Unmount

InitPanels ==
    /\ panel \in Generators \cup Modals \cup Panels
    /\ apiKey \in BOOLEAN
    /\ now = 0
    /\ messages = IF panel = "InterviewTrainer"
                  THEN <<Message(InitId(0), "model", Greeting, NoFile)>>
                  ELSE <<>>
    /\ isLoading = FALSE
    /\ input = <<>>
    /\ selectedFile = NoFile
    /\ reqs = <<>>
    /\ netCalls = 0
    /\ isListening = FALSE
    /\ refEngine = NewRecognition(FALSE)
    /\ engines = <<>>
    /\ lastResult = <<>>
    /\ synth = <<>>
    /\ synthEvents = 0
    /\ uttCount = 0
    /\ isSpeaking = FALSE
    /\ speakingMessageId = NoId
    /\ effSpeaking = FALSE
    /\ effectPending = FALSE
    /\ lastOp = "other"
    /\ gwOp = "none"
    /\ gwRaw = <<>>
    /\ gwOut = NoOutcome
    /\ gwNet = 0
    /\ GenInit
    /\ SkillInit

SpecPanels == InitPanels /\ [][NextPanels]_vars

\* ------------------------------------------------------------ SkillTracker
\* what the remote model can answer to the feedback request
FeedbackResponses ==
    {[kind |-> "text", raw |-> r] : r \in {<<"O">>, <<"x">>}}
    \cup {[kind |-> "error", raw |-> <<>>]}

\* handleGetFeedback(goal) up to its await: the button of a goal is disabled
\* while isLoadingFeedback is that goal's id
GetFeedback ==
    /\ panel = "SkillTracker"
    /\ mounted
    /\ Len(fbReqs) < MaxRequests
    /\ \E goal \in Goals : \E remote \in FeedbackResponses :
        LET out == getSkillFeedback(apiKey, remote)
        IN /\ isLoadingFeedback # goal
           /\ isLoadingFeedback' = goal
           /\ fbReqs' = Append(fbReqs, [goal |-> goal, pc |-> "awaiting", out |-> out])
           /\ netCalls' = netCalls + out.net
    /\ lastOp' = "request"
    /\ UNCHANGED <<panel, apiKey, now, messages, isLoading, input, selectedFile, reqs,
                   recVars, synthVars, effectPending, gwVars, genVars, notification>>

\* await getSkillFeedback(goal) returns: setAIFeedback(feedback), finally
FeedbackResolved ==
    /\ mounted
    /\ \E i \in DOMAIN fbReqs :
        /\ fbReqs[i].pc = "awaiting"
        /\ fbReqs[i].out.kind = "value"
        /\ result' = [text |-> <<>>, val |-> fbReqs[i].out.val]
        /\ fbReqs' = [fbReqs EXCEPT ![i].pc = "done"]
    /\ isOpen' = TRUE
    /\ isLoadingFeedback' = NoGoal
    /\ lastOp' = "other"
    /\ UNCHANGED <<panel, apiKey, now, chatVars, recVars, synthVars, effectPending, gwVars,
                   error, speakingIndex, genReq, genSends, mounted, notification>>

\* await getSkillFeedback(goal) throws: showNotification(...), finally
FeedbackFailed ==
    /\ mounted
    /\ \E i \in DOMAIN fbReqs :
        /\ fbReqs[i].pc = "awaiting"
        /\ fbReqs[i].out.kind = "error"
        /\ fbReqs' = [fbReqs EXCEPT ![i].pc = "failed"]
    /\ notification' = <<"Error getting AI feedback.">>
    /\ isLoadingFeedback' = NoGoal
    /\ lastOp' = "other"
    /\ UNCHANGED <<panel, apiKey, now, chatVars, recVars, synthVars, effectPending, gwVars,
                   genVars>>

\* setTimeout(() => setNotification(''), 3000)
NotificationTimeout ==
    /\ mounted
    /\ notification # <<>>
    /\ notification' = <<>>
    /\ lastOp' = "other"
    /\ UNCHANGED <<panel, apiKey, now, chatVars, recVars, synthVars, effectPending, gwVars,
                   genVars, isLoadingFeedback, fbReqs>>

NextSkill ==
    \/ GetFeedback
    \/ FeedbackResolved
    \/ FeedbackFailed
    \/ NotificationTimeout

InitSkill ==
    /\ panel = "SkillTracker"
    /\ apiKey \in BOOLEAN
    /\ now = 0
    /\ messages = <<>>
    /\ isLoading = FALSE
    /\ input = <<>>
    /\ selectedFile = NoFile
    /\ reqs = <<>>
    /\ netCalls = 0
    /\ isListening = FALSE
    /\ refEngine = NewRecognition(FALSE)
    /\ engines = <<>>
    /\ lastResult = <<>>
    /\ synth = <<>>
    /\ synthEvents = 0
    /\ uttCount = 0
    /\ isSpeaking = FALSE
    /\ speakingMessageId = NoId
    /\ effSpeaking = FALSE
    /\ effectPending = FALSE
    /\ lastOp = "other"
    /\ gwOp = "none"
    /\ gwRaw = <<>>
    /\ gwOut = NoOutcome
    /\ gwNet = 0
    /\ GenInit
    /\ SkillInit

SpecSkill == InitSkill /\ [][NextSkill]_vars

\* ------------------------------------------------- calls of the gateway
\* a caller awaits one gateway call at a time
GatewayCall(op, raw, out) ==
    /\ gwOp = "none"
    /\ gwNet + out.net <= MaxCalls
    /\ gwOp' = op
    /\ gwRaw' = raw
    /\ gwOut' = out
    /\ gwNet' = gwNet + out.net
    /\ UNCHANGED <<panel, skillVars, apiKey, now, chatVars, recVars, synthVars, effectPending, lastOp, genVars>>

CallGenerateExplanationStream ==
    \E remote \in RemoteStreams :
        GatewayCall("generateExplanationStream", <<>>, generateExplanationStream(apiKey, remote))

CallStartInterviewChat ==
    \E remote \in RemoteStreams :
        GatewayCall("startInterviewChat", <<>>, startInterviewChat(apiKey, remote))

CallGenerateCodeSnippetStream ==
    \E remote \in RemoteStreams :
        GatewayCall("generateCodeSnippetStream", <<>>, generateCodeSnippetStream(apiKey, remote))

CallSummarizeText ==
    \E remote \in RemoteTexts :
        GatewayCall("summarizeText", remote.raw, summarizeText(apiKey, remote))

CallGenerateImages ==
    \E remote \in RemoteTexts :
        GatewayCall("generateImages", remote.raw, generateImages(apiKey, remote))

CallGenerateQuiz ==
    \E remote \in RemoteTexts :
        GatewayCall("generateQuiz", remote.raw, generateQuiz(apiKey, remote))

CallGetSkillFeedback ==
    \E remote \in RemoteTexts :
        GatewayCall("getSkillFeedback", remote.raw, getSkillFeedback(apiKey, remote))

CallGetProjectIdeas ==
    \E remote \in RemoteTexts :
        GatewayCall("getProjectIdeas", remote.raw, getProjectIdeas(apiKey, remote))

CallDebugCode ==
    \E remote \in RemoteTexts :
        GatewayCall("debugCode", remote.raw, debugCode(apiKey, remote))

CallGenerateWebsiteCode ==
    \E remote \in RemoteTexts :
        GatewayCall("generateWebsiteCode", remote.raw, generateWebsiteCode(apiKey, remote))

\* the await of the call ends in the caller: its result or error is taken
GatewayResultTaken ==
    /\ gwOp # "none"
    /\ gwOp' = "none"
    /\ gwRaw' = <<>>
    /\ gwOut' = NoOutcome
    /\ UNCHANGED <<panel, skillVars, apiKey, now, chatVars, recVars, synthVars, effectPending, lastOp, gwNet, genVars>>

\* the operations of the gateway, each called on its own
NextGateway ==
    \/ GatewayResultTaken
    \/ CallGenerateExplanationStream
    \/ CallStartInterviewChat
    \/ CallGenerateCodeSnippetStream
    \/ CallSummarizeText
    \/ CallGenerateImages
    \/ CallGenerateQuiz
    \/ CallGetSkillFeedback
    \/ CallGetProjectIdeas
    \/ CallDebugCode
    \/ CallGenerateWebsiteCode

SpecGateway == Init /\ [][NextGateway]_vars


\* ================================================================ claims
TurnOf(i) == messages[reqs[i].turnIx]

IsMarkedError(content) ==
    Len(content) > Len(ErrorMarker) /\ SubSeq(content, 1, Len(ErrorMarker)) = ErrorMarker

LastRequest == Len(reqs)

\* C1: once the stream of a chat request has completed, the content of that
\* request's assistant turn is the concatenation of the stream's fragments in
\* emission order (checked for the request that completed last).
C1_StreamConcatenation ==
    (reqs # <<>> /\ reqs[LastRequest].pc = "done")
        => TurnOf(LastRequest).content = Flatten(reqs[LastRequest].out.frags)

C1_Witness ==
    /\ reqs # <<>>
    /\ reqs[LastRequest].pc = "done"
    /\ reqs[LastRequest].out.frags = << <<"a">>, <<"b">> >>
    /\ TurnOf(LastRequest).content = <<"a", "b">>

\* C2: at most one request of a conversation is in progress at any instant:
\* between an accepted send and the end of its handler no second send is accepted.
C2_OneInProgress == Cardinality(InFlight) <= 1

C2_Witness ==
    /\ InFlight # {}
    /\ isLoading
    /\ Trim(input) # <<>>

\* C3: every submitted chat request ends in a terminal state: when its handler
\* has ended, the loading flag is false and the request's assistant turn holds
\* the streamed text or a marked error message.
C3_TerminalState ==
    (reqs # <<>> /\ reqs[LastRequest].pc \in Finished)
        => /\ ~isLoading
           /\ reqs[LastRequest].turnIx \in DOMAIN messages
           /\ \/ reqs[LastRequest].pc = "done"
              \/ IsMarkedError(TurnOf(LastRequest).content)

\* C10: when a chat stream fails at creation or between fragments, the marked
\* error message is written into the open assistant turn of that request and
\* into no other turn.
C10_ErrorIntoOpenTurnOnly ==
    [][\A i \in DOMAIN reqs :
          (reqs[i].pc \in {"creating", "streaming"} /\ reqs'[i].pc = "failed")
              => /\ IsMarkedError(messages'[reqs[i].turnIx].content)
                 /\ \A j \in DOMAIN messages :
                        j # reqs[i].turnIx => messages'[j] = messages[j]]_vars

\* C5: at most one utterance is in the synthesis engine at any instant, and
\* it is the one of the latest speak call.
C5_OneUtterance ==
    /\ Len(synth) <= 1
    /\ synth # <<>> => synth[1].tok = uttCount

C5_Witness ==
    /\ uttCount = 2
    /\ Len(synth) = 1
    /\ synth[1].tok = 2
    /\ synthEvents > 0

\* C6: after stopListening() the transcript callback is not invoked until
\* startListening() is called again (it is invoked only while isListening).
C6_NoTranscriptAfterStop == lastOp = "onresult" => isListening

\* C7: while the controller is Listening a recognition is capturing, also
\* after the engine has ended a recognition on its own.
C7_CaptureWhileListening ==
    isListening => \/ refEngine.phase = "running"
                   \/ \E e \in DOMAIN engines : engines[e].phase = "running"

\* C8: a recognition result replaces the live transcript: after onresult the
\* input is exactly the joined text of the event's results.
C8_TranscriptReplaces == lastOp = "onresult" => input = Flatten(lastResult)

C8_Witness ==
    /\ lastOp = "onresult"
    /\ lastResult = << <<"hello", " world">> >>
    /\ input = <<"hello", " world">>

Malformed(op, raw) ==
    LET parsed == JSONParse(Trim(raw))
    IN ~parsed.ok \/ ~Conforms(op, parsed.val)

\* C4: a structured operation that receives a malformed response text (no
\* JSON, truncated JSON or JSON of another shape) ends with its format error
\* and returns no value.
C4_MalformedIsFormatError ==
    (gwOp \in StructuredOps /\ gwOut.net = 1 /\ gwOut.msg # TransportError
        /\ Malformed(gwOp, gwRaw))
        => gwOut = GwError(FormatErrorMsg(gwOp), 1)

\* C9: without a credential every gateway operation fails with the
\* configuration error and issues no network request, call after call.
C9_CredentialCheckedFirst ==
    ~apiKey => /\ gwNet = 0
               /\ gwOp # "none" => gwOut.kind = "error" /\ gwOut.msg = ApiKeyMissing
                                   /\ gwOut.net = 0

C9_Witness ==
    /\ ~apiKey
    /\ gwOp = "generateImages"
    /\ gwOut.kind = "error"

\* C11: every call of speak, whatever its text, first cancels what is in the
\* synthesis engine: after the call no utterance queued before it remains.
C11_SpeakCancelsFirst ==
    [][lastOp' = "speak" => \A k \in DOMAIN synth' : synth'[k].tok > uttCount]_vars

\* C12: a controller whose utterance is being spoken is Speaking until that
\* utterance ends or errors or cancelSpeech() is called.
C12_SpeakingWhilePlaying == (synth # <<>> /\ synth[1].started) => isSpeaking

\* C13: startListening() moves an Idle controller to Listening and starts the
\* recognition held by recognitionRef; while the controller stays Listening no
\* further recognition is started; stopListening() moves it to Idle and stops
\* the recognition held by recognitionRef.
C13_RecognitionStateMachine ==
    [][/\ (~isListening /\ isListening')
            => (refEngine.phase = "idle" /\ refEngine'.phase = "running")
       /\ (isListening /\ isListening') => RunningCount' <= RunningCount
       /\ (isListening /\ ~isListening') => refEngine' = RecognitionStop(refEngine)]_vars

C13_Witness ==
    /\ ~isListening
    /\ refEngine.phase = "stopping"
    /\ lastResult # <<>>

\* C14: a component that owns playback cancels the synthesis engine when it
\* sends a request (its loading flag rises), when it is unmounted, and, for a
\* modal, when it has been closed and the effects of that render have run.
C14_CancelOnRequestUnmountClose ==
    /\ [][/\ (~isLoading /\ isLoading') => synth' = <<>>
          /\ (mounted /\ ~mounted') => synth' = <<>>]_vars
    /\ []((panel \in Modals /\ mounted /\ ~isOpen /\ ~effectPending) => synth = <<>>)

C14_Witness ==
    /\ lastOp = "request"
    /\ isLoading
    /\ synthEvents > 0
    /\ synth = <<>>

ShownAsSpeaking ==
    {i \in DOMAIN messages :
        /\ messages[i].role = "model" /\ messages[i].content # <<>> /\ ~isLoading
        /\ messages[i].id = speakingMessageId}

\* C16: at most one playback element of a panel is shown as speaking.
C16_OneShownAsSpeaking == Cardinality(ShownAsSpeaking) <= 1

\* C17: a send with an empty or white-space prompt (and no file) is surfaced
\* as an error: after such a call the panel's error message is set.
C17_EmptyPromptSurfaced == lastOp = "inputRejected" => error # <<>>

\* C18: no automatic retry: a step makes at most one gateway call, and only
\* the step in which the user's send is accepted (or the file read of that
\* send completes) makes one; a request that has ended makes no further step.
C18_NoAutomaticRetry ==
    [][/\ netCalls' <= netCalls + 1
       /\ netCalls' > netCalls
            => \/ Len(reqs') > Len(reqs)
               \/ genSends' > genSends
               \/ genReq.pc = "reading"
       /\ \A i \in DOMAIN reqs :
            (i \in DOMAIN reqs' /\ reqs[i].pc \in Finished) => reqs'[i] = reqs[i]]_vars

C18_Witness ==
    /\ panel = "Explainer"
    /\ Len(reqs) = 1
    /\ reqs[1].pc = "failed"
    /\ netCalls = 1
    /\ IsMarkedError(messages[2].content)

\* C19: while the loading flag of a chat panel is true, the last element of
\* the history is the in-progress assistant turn of the request in flight.
C19_LastIsInProgressTurn ==
    isLoading => /\ messages # <<>>
                 /\ messages[Len(messages)].role = "model"
                 /\ \E i \in InFlight : reqs[i].turnIx = Len(messages)

IsPrefix(s, t) == Len(s) <= Len(t) /\ SubSeq(t, 1, Len(s)) = s

\* C20: no turn is removed, a turn's content changes only while the turn is
\* the open turn of a request in flight, and each change extends the content.
C20_ContentGrowsOnlyInProgress ==
    [][\A j \in DOMAIN messages :
          /\ j \in DOMAIN messages'
          /\ messages'[j].id = messages[j].id
          /\ IsPrefix(messages[j].content, messages'[j].content)
          /\ messages'[j].content # messages[j].content
                => \E i \in InFlight : reqs[i].turnIx = j]_vars

\* the quiz request whose response text JSON.parse rejects ends in this step
QuizUnparsableEnds ==
    /\ panel = "QuizGenerator"
    /\ genReq.pc = "awaiting"
    /\ genReq.out.net = 1
    /\ genReq.raw # <<>>
    /\ ~JSONParse(Trim(genReq.raw)).ok
    /\ genReq'.pc = "none"
    /\ mounted'

\* C21 (as amended): when the quiz call returns text that cannot be parsed,
\* the call ends with the format error, the panel's error message is
\* "Failed to generate quiz: " followed by "The AI returned an invalid quiz
\* format. Please try again.", the question list stays empty and loading is off.
C21_UnparsableQuizPrefixed ==
    [][QuizUnparsableEnds
        => /\ genReq.out = GwError(FormatErrorMsg("generateQuiz"), 1)
           /\ error' = FailurePrefix("QuizGenerator") \o FormatErrorMsg("generateQuiz")
           /\ result' = NoResult
           /\ ~isLoading']_vars

C21_Witness ==
    /\ panel = "QuizGenerator"
    /\ mounted
    /\ genSends = 1
    /\ genReq.pc = "none"
    /\ ~isLoading
    /\ result = NoResult
    /\ error = FailurePrefix("QuizGenerator") \o FormatErrorMsg("generateQuiz")

\* C21 (as stated): the panel's error message is exactly "The AI returned an
\* invalid quiz format. Please try again."
C21_UnparsableQuizVerbatim ==
    [][QuizUnparsableEnds
        => /\ error' = FormatErrorMsg("generateQuiz")
           /\ result' = NoResult
           /\ ~isLoading']_vars

\* the gateway call of request i is made in this step
CallMade(i) ==
    /\ i \in DOMAIN reqs'
    /\ reqs'[i].pc = "creating"
    /\ (i \in DOMAIN reqs => reqs[i].pc = "reading")
    /\ apiKey

\* C22: the context of a chat call is the role and content of the turns the
\* panel holds when the call is made, in their order; the new user turn and
\* its placeholder are appended after them and are not in the context, and
\* the new message is handed over once, as the text part of the new turn.
C22_ContextIsHeldHistory ==
    [][\A i \in 1..MaxSends :
          CallMade(i)
            => /\ Len(reqs'[i].ctx.history) = Len(messages)
               /\ \A j \in DOMAIN messages :
                     /\ reqs'[i].ctx.history[j].role = messages[j].role
                     /\ reqs'[i].ctx.history[j].text = messages[j].content
               /\ messages' = messages \o <<messages'[Len(messages) + 1],
                                            messages'[Len(messages) + 2]>>
               /\ messages'[Len(messages) + 1].role = "user"
               /\ messages'[Len(messages) + 2].content = <<>>
               /\ reqs'[i].ctx.parts[1].text
                     = FinalMessage(messages'[Len(messages) + 1].content, reqs'[i].notes)
               /\ \A n \in DOMAIN reqs'[i].ctx.parts :
                     n > 1 => reqs'[i].ctx.parts[n].text = <<>>]_vars

C22_Witness ==
    /\ panel = "Explainer"
    /\ Len(reqs) = 2
    /\ reqs[2].pc = "creating"
    /\ Len(reqs[2].ctx.history) = 2
    /\ reqs[2].ctx.history[1].role = "user"
    /\ reqs[2].ctx.history[2].role = "model"
    /\ reqs[2].ctx.history[2].text = <<"a", "b">>
    /\ Len(reqs[2].ctx.parts) = 2

\* the notes of NotesArgs as the text of the block, and what request i sent
TwoNotesText ==
    <<"Subject: ", "s1", "\nTitle: ", "t1", "\nContent:\n", "c1", "\n\n---\n\n",
      "Subject: ", "s2", "\nTitle: ", "t2", "\nContent:\n", "c2">>

NotesSupplied(i) == reqs[i].notes.given /\ reqs[i].notes.list # <<>>

ExplainerCalls == {i \in DOMAIN reqs : panel = "Explainer" /\ reqs[i].pc = "creating" /\ apiKey}

C24_IdsDistinct ==
    \A i, j \in DOMAIN messages : i # j => messages[i].id # messages[j].id

\* C25: a send is accepted also while the controller is Listening and leaves
\* it Idle (isListening false); the controller becomes Listening again only
\* by a startListening() call, which no send makes.
C25_SendStopsListening ==
    [][/\ Len(reqs') > Len(reqs) => ~isListening'
       /\ (~isListening /\ isListening')
            => /\ refEngine.phase = "idle"
               /\ refEngine'.phase = "running"
               /\ reqs' = reqs]_vars

C25_Witness ==
    /\ lastOp = "request"
    /\ panel \in Panels
    /\ ~isListening
    /\ refEngine.phase = "stopping"
    /\ lastResult # <<>>
    /\ isLoading

\* the utterances that are in the engine before a step and not after it
Removed == {k \in DOMAIN synth : \A m \in DOMAIN synth' : synth'[m].tok # synth[k].tok}

\* C26: an utterance leaves the synthesis engine only when it completes or
\* errors while being spoken, or by a later speak, a cancelSpeech() call (of
\* a toggle or a send) or the unmount of the component; a step that only
\* re-renders the component does not remove it.
C26_RerenderKeepsPlayback ==
    [][\A k \in Removed :
          \/ synth[k].started /\ synthEvents' = synthEvents
          \/ lastOp' \in {"speak", "cancel", "request", "unmount"}]_vars

\* C27: while the utterance of element B is being spoken and B is shown as
\* the speaker, the delivery of the end or error event of an utterance that
\* B's speak cancelled leaves isSpeaking true and the speaking id on B.
C27_StaleEventKeepsSpeaker ==
    [][(/\ synth # <<>>
        /\ synth[1].started
        /\ isSpeaking
        /\ synth' = synth
        /\ synthEvents' < synthEvents)
          => /\ isSpeaking'
             /\ speakingMessageId' = speakingMessageId]_vars

\* the request of a generator panel ends in this step, and how
RequestEnds == panel \in Generators /\ genReq.pc # "none" /\ genReq'.pc = "none" /\ mounted'

EndsInFailure ==
    \/ genReq.pc = "reading"
    \/ genReq.pc = "awaiting" /\ genReq.out.kind = "error"
    \/ genReq.pc = "streaming" /\ genReq.out.fail

\* C28: when the request of a generator panel ends, the loading flag is
\* false; if it failed (gateway error, failed file read, stream that throws)
\* the result state is empty and the error message is set; if it succeeded
\* the error message is empty.
C28_GeneratorTerminalState ==
    [][RequestEnds
        => /\ ~isLoading'
           /\ IF EndsInFailure
              THEN result' = NoResult /\ error' # <<>>
              ELSE error' = <<>>]_vars

FeedbackInFlight == {i \in DOMAIN fbReqs : fbReqs[i].pc = "awaiting"}

\* C29: at most one feedback request of SkillTracker is in flight, and while
\* a goal's request is in flight isLoadingFeedback is that goal's id (its
\* spinner is shown and its button disabled).
C29_OneFeedbackInFlight ==
    /\ Cardinality(FeedbackInFlight) <= 1
    /\ \A i \in FeedbackInFlight : isLoadingFeedback = fbReqs[i].goal

\* request i makes a streaming update (a fragment write or the error write)
StreamingUpdate(i) ==
    /\ reqs[i].pc \in {"creating", "streaming"}
    /\ Len(reqs') = Len(reqs)
    /\ reqs'[i] # reqs[i]
    /\ messages' # messages

\* C30: a streaming update changes nothing but the content of the assistant
\* turn of its own request: the number and order of the turns, the id, role
\* and file info of that turn and every other turn stay as they were.
C30_UpdateTouchesOwnTurnOnly ==
    [][\A i \in DOMAIN reqs :
          StreamingUpdate(i)
            => /\ Len(messages') = Len(messages)
               /\ \A j \in DOMAIN messages :
                     IF j = reqs[i].turnIx
                     THEN messages'[j] = [messages[j] EXCEPT !.content = messages'[j].content]
                     ELSE messages'[j] = messages[j]]_vars


====
